---- MODULE Spec2Model ----
(***************************************************************************)
(* Payment transaction engine: the account ledger (account.rs,             *)
(* SimpleManager) and the transaction processor (engine.rs, Engine).       *)
(*                                                                         *)
(* Amounts are rust_decimal Decimals.  The model keeps them as integers in *)
(* one fixed unit, with DecimalMax standing for Decimal::MAX: checked_add  *)
(* fails above DecimalMax, comparison and subtraction are exact.           *)
(***************************************************************************)
EXTENDS Integers, FiniteSets, Sequences, TLC

\* Decimal::MAX, scaled down.
DecimalMax == 2

\* u16 client ids that occur in the input.
Clients == {1, 2}

\* u32 transaction ids that occur in the input.  Deposits and withdrawals
\* carry ids of DepositTxIds (an id may be reused by a later deposit or
\* withdrawal); dispute, resolve, chargeback and unrecognised records carry
\* any id of TxIds, so TxIds \ DepositTxIds are ids that are never recorded.
DepositTxIds == {1}
TxIds == {1, 2}

\* Amounts a deposit, a withdrawal or a Manager call can carry: negative,
\* zero, positive, and the largest representable value.
Amounts == {-1, 0, 1, DecimalMax}

\* Amounts a dispute, resolve, chargeback or unrecognised record carries
\* (engine.rs tests pass 0.0).
RefAmounts == {0, DecimalMax}

\* Longest input sequence of a run that is followed to its end.
MaxInput == 4

\* tx_type strings engine.rs matches on; "other" is any string that falls
\* to the `_` arm.
TxTypes == {"deposit", "withdrawal", "dispute", "resolve", "chargeback", "other"}

VARIABLES
    accounts,       \* SimpleManager.accounts : HashMap<u16, Account>
    transactions,   \* Engine.transactions    : HashMap<u32, Transaction>
    last,           \* the record (or Manager call) handled by the last step
    result,         \* how the last step ended
    before,         \* accounts and transactions as they were before the last step
    owner,          \* who holds the SimpleManager: its creator, or the Engine it was moved into
    disputed,       \* tx ids of the history whose entry is under dispute (held, not yet resolved or charged back)
    net,            \* per client: amounts deposited minus amounts withdrawn and charged back so far
    in_flight,      \* hold operations that have passed their checks and not yet written, when several callers share the manager
    pos,            \* number of items the loop of process_all has taken from its input
    input_len       \* number of items of the input sequence, when it is given in advance

cursor == <<pos, input_len>>

vars == <<accounts, transactions, last, result, before, owner, disputed, net, in_flight, pos, input_len>>

----------------------------------------------------------------------------
(* types.rs *)

Transaction(t, c, x, a) == [tx_type |-> t, client_id |-> c, tx_id |-> x, amount |-> a]

Account(c) == [client_id |-> c, is_locked |-> FALSE, available_amount |-> 0, held_amount |-> 0]

RecordTypes == {"deposit", "withdrawal"}
ReferenceTypes == {"dispute", "resolve", "chargeback"}

Records ==
    {Transaction(t, c, x, a) : t \in RecordTypes, c \in Clients, x \in DepositTxIds, a \in Amounts}
    \cup {Transaction(t, c, x, a) : t \in TxTypes \ RecordTypes, c \in Clients, x \in TxIds, a \in RefAmounts}

NoTx == Transaction("none", 0, 0, 0)

EmptyMap == [k \in {} |-> 0]

\* A manager with a single caller: no operation is ever in flight.
NoHolds == [exclusive |-> TRUE, ops |-> EmptyMap]

insert(m, k, v) == [x \in (DOMAIN m) \cup {k} |-> IF x = k THEN v ELSE m[x]]

----------------------------------------------------------------------------
(* account.rs: SimpleManager.  Every operation returns whether it was Ok     *)
(* and the accounts map it leaves.                                           *)

MOk(accs) == [ok |-> TRUE, accounts |-> accs]
MErr(accs) == [ok |-> FALSE, accounts |-> accs]

\* Decimal::checked_add: None when the sum is not representable.
checked_add_ok(x, y) == x + y <= DecimalMax /\ x + y >= -DecimalMax

\* check_positive that lets every amount through.
check_positive_any(amount) == TRUE

\* Decimal::is_sign_positive: true for zero as well.
check_positive(amount) == amount >= 0

\* ensure_account that never creates an account.
ensure_account_noop(accs, client_id) == MOk(accs)

\* ensure_account that inserts a fresh account whether or not one exists.
ensure_account_reset(accs, client_id) ==
    MOk(insert(accs, client_id, Account(client_id)))

ensure_account(accs, client_id) ==
    IF client_id \notin DOMAIN accs
    THEN MOk(insert(accs, client_id, Account(client_id)))
    ELSE MOk(accs)

\* deposit that opens the account when there is none.
deposit_upsert(accs, client_id, amount) ==
    LET e == ensure_account(accs, client_id).accounts
    IN  IF ~check_positive(amount) THEN MErr(accs)
        ELSE IF checked_add_ok(e[client_id].available_amount, amount)
             THEN MOk([e EXCEPT ![client_id].available_amount = @ + amount])
             ELSE MErr(accs)

\* deposit that saturates at Decimal::MAX instead of failing.
deposit_saturating(accs, client_id, amount) ==
    IF ~check_positive(amount) THEN MErr(accs)
    ELSE IF client_id \notin DOMAIN accs THEN MErr(accs)
    ELSE IF checked_add_ok(accs[client_id].available_amount, amount)
         THEN MOk([accs EXCEPT ![client_id].available_amount = @ + amount])
         ELSE MOk([accs EXCEPT ![client_id].available_amount = DecimalMax])

deposit(accs, client_id, amount) ==
    IF ~check_positive(amount) THEN MErr(accs)
    ELSE IF client_id \notin DOMAIN accs THEN MErr(accs)
    ELSE IF checked_add_ok(accs[client_id].available_amount, amount)
         THEN MOk([accs EXCEPT ![client_id].available_amount = @ + amount])
         ELSE MErr(accs)

\* withdraw without the insufficient-funds check.
withdraw_unchecked(accs, client_id, amount) ==
    IF ~check_positive(amount) THEN MErr(accs)
    ELSE IF client_id \notin DOMAIN accs THEN MErr(accs)
    ELSE MOk([accs EXCEPT ![client_id].available_amount = @ - amount])

withdraw(accs, client_id, amount) ==
    IF ~check_positive(amount) THEN MErr(accs)
    ELSE IF client_id \notin DOMAIN accs THEN MErr(accs)
    ELSE IF accs[client_id].available_amount - amount < 0 THEN MErr(accs)
    ELSE MOk([accs EXCEPT ![client_id].available_amount = @ - amount])

\* withdraw_held that gives the amount back to available.
withdraw_held_refunds(accs, client_id, amount) ==
    IF ~check_positive(amount) THEN MErr(accs)
    ELSE IF client_id \notin DOMAIN accs THEN MErr(accs)
    ELSE IF accs[client_id].held_amount - amount < 0 THEN MErr(accs)
    ELSE MOk([accs EXCEPT ![client_id].held_amount = @ - amount,
                          ![client_id].available_amount = @ + amount])

\* withdraw_held that refuses to take the whole held balance.
withdraw_held_strict(accs, client_id, amount) ==
    IF ~check_positive(amount) THEN MErr(accs)
    ELSE IF client_id \notin DOMAIN accs THEN MErr(accs)
    ELSE IF accs[client_id].held_amount - amount <= 0 THEN MErr(accs)
    ELSE MOk([accs EXCEPT ![client_id].held_amount = @ - amount])

withdraw_held(accs, client_id, amount) ==
    IF ~check_positive(amount) THEN MErr(accs)
    ELSE IF client_id \notin DOMAIN accs THEN MErr(accs)
    ELSE IF accs[client_id].held_amount - amount < 0 THEN MErr(accs)
    ELSE MOk([accs EXCEPT ![client_id].held_amount = @ - amount])

\* hold that refuses to take the whole available balance.
hold_needs_spare(accs, client_id, amount) ==
    IF ~check_positive(amount) THEN MErr(accs)
    ELSE IF client_id \notin DOMAIN accs THEN MErr(accs)
    ELSE IF accs[client_id].available_amount - amount <= 0 THEN MErr(accs)
    ELSE IF checked_add_ok(accs[client_id].held_amount, amount)
         THEN MOk([accs EXCEPT ![client_id].available_amount = @ - amount,
                               ![client_id].held_amount = @ + amount])
         ELSE MErr(accs)

\* hold that takes the amount from available before it checks held for
\* overflow.
hold_half_applied(accs, client_id, amount) ==
    IF ~check_positive(amount) THEN MErr(accs)
    ELSE IF client_id \notin DOMAIN accs THEN MErr(accs)
    ELSE IF accs[client_id].available_amount - amount < 0 THEN MErr(accs)
    ELSE IF checked_add_ok(accs[client_id].held_amount, amount)
         THEN MOk([accs EXCEPT ![client_id].available_amount = @ - amount,
                               ![client_id].held_amount = @ + amount])
         ELSE MErr([accs EXCEPT ![client_id].available_amount = @ - amount])

hold(accs, client_id, amount) ==
    IF ~check_positive(amount) THEN MErr(accs)
    ELSE IF client_id \notin DOMAIN accs THEN MErr(accs)
    ELSE IF accs[client_id].available_amount - amount < 0 THEN MErr(accs)
    ELSE IF checked_add_ok(accs[client_id].held_amount, amount)
         THEN MOk([accs EXCEPT ![client_id].available_amount = @ - amount,
                               ![client_id].held_amount = @ + amount])
         ELSE MErr(accs)

\* release that takes the amount from held and does not give it to available.
release_drops_amount(accs, client_id, amount) ==
    IF ~check_positive(amount) THEN MErr(accs)
    ELSE IF client_id \notin DOMAIN accs THEN MErr(accs)
    ELSE IF accs[client_id].held_amount - amount < 0 THEN MErr(accs)
    ELSE IF checked_add_ok(accs[client_id].available_amount, amount)
         THEN MOk([accs EXCEPT ![client_id].held_amount = @ - amount])
         ELSE MErr(accs)

release(accs, client_id, amount) ==
    IF ~check_positive(amount) THEN MErr(accs)
    ELSE IF client_id \notin DOMAIN accs THEN MErr(accs)
    ELSE IF accs[client_id].held_amount - amount < 0 THEN MErr(accs)
    ELSE IF checked_add_ok(accs[client_id].available_amount, amount)
         THEN MOk([accs EXCEPT ![client_id].available_amount = @ + amount,
                               ![client_id].held_amount = @ - amount])
         ELSE MErr(accs)

lock(accs, client_id) ==
    IF client_id \notin DOMAIN accs THEN MErr(accs)
    ELSE MOk([accs EXCEPT ![client_id].is_locked = TRUE])

is_locked(accs, client_id) ==
    IF client_id \notin DOMAIN accs THEN [ok |-> FALSE, value |-> FALSE]
    ELSE [ok |-> TRUE, value |-> accs[client_id].is_locked]

----------------------------------------------------------------------------
(* engine.rs: Engine *)

\* Lookup that treats an unknown tx_id as an error.
get_client_tx_strict(hist, client_id, tx_id) ==
    IF tx_id \in DOMAIN hist
    THEN IF hist[tx_id].client_id = client_id
         THEN [ok |-> TRUE, found |-> TRUE, tx |-> hist[tx_id]]
         ELSE [ok |-> FALSE, found |-> FALSE, tx |-> NoTx]
    ELSE [ok |-> FALSE, found |-> FALSE, tx |-> NoTx]

\* Lookup that does not compare the client ids.
get_client_tx_any_client(hist, client_id, tx_id) ==
    IF tx_id \in DOMAIN hist
    THEN [ok |-> TRUE, found |-> TRUE, tx |-> hist[tx_id]]
    ELSE [ok |-> TRUE, found |-> FALSE, tx |-> NoTx]

\* Result of a lookup in the history: Err, Ok(None) or Ok(Some(tx)).
get_client_tx(hist, client_id, tx_id) ==
    IF tx_id \in DOMAIN hist
    THEN IF hist[tx_id].client_id = client_id
         THEN [ok |-> TRUE, found |-> TRUE, tx |-> hist[tx_id]]
         ELSE [ok |-> FALSE, found |-> FALSE, tx |-> NoTx]
    ELSE [ok |-> TRUE, found |-> FALSE, tx |-> NoTx]

PRes(ok, accs, hist) == [ok |-> ok, accounts |-> accs, transactions |-> hist]

\* "deposit" arm: the record is inserted in the history, then deposited.
process_deposit(accs, hist, tx) ==
    LET h == insert(hist, tx.tx_id, tx)
        r == deposit(accs, tx.client_id, tx.amount)
    IN  PRes(r.ok, r.accounts, h)

\* "withdrawal" arm: the record is inserted in the history, then withdrawn.
process_withdrawal(accs, hist, tx) ==
    LET h == insert(hist, tx.tx_id, tx)
        r == withdraw(accs, tx.client_id, tx.amount)
    IN  PRes(r.ok, r.accounts, h)

\* "dispute" arm that records the dispute itself in the history.
process_dispute_recorded(accs, hist, tx) ==
    LET g == get_client_tx(hist, tx.client_id, tx.tx_id)
        h == insert(hist, tx.tx_id, tx)
    IN  IF ~g.ok THEN PRes(FALSE, accs, hist)
        ELSE IF g.found
             THEN LET r == hold(accs, g.tx.client_id, g.tx.amount)
                  IN  PRes(r.ok, r.accounts, hist)
             ELSE PRes(TRUE, accs, h)

\* "dispute" arm that holds the amount field of the dispute record.
process_dispute_own_amount(accs, hist, tx) ==
    LET g == get_client_tx(hist, tx.client_id, tx.tx_id)
    IN  IF ~g.ok THEN PRes(FALSE, accs, hist)
        ELSE IF g.found
             THEN LET r == hold(accs, tx.client_id, tx.amount)
                  IN  PRes(r.ok, r.accounts, hist)
             ELSE PRes(TRUE, accs, hist)

\* "dispute" arm.
process_dispute(accs, hist, tx) ==
    LET g == get_client_tx(hist, tx.client_id, tx.tx_id)
    IN  IF ~g.ok THEN PRes(FALSE, accs, hist)
        ELSE IF g.found
             THEN LET r == hold(accs, g.tx.client_id, g.tx.amount)
                  IN  PRes(r.ok, r.accounts, hist)
             ELSE PRes(TRUE, accs, hist)

\* "resolve" arm.
process_resolve(accs, hist, tx) ==
    LET g == get_client_tx(hist, tx.client_id, tx.tx_id)
    IN  IF ~g.ok THEN PRes(FALSE, accs, hist)
        ELSE IF g.found
             THEN LET r == release(accs, g.tx.client_id, g.tx.amount)
                  IN  PRes(r.ok, r.accounts, hist)
             ELSE PRes(TRUE, accs, hist)

\* "chargeback" arm that locks the account before it looks at the outcome
\* of withdraw_held.
process_chargeback_lock_first(accs, hist, tx) ==
    LET g == get_client_tx(hist, tx.client_id, tx.tx_id)
    IN  IF ~g.ok THEN PRes(FALSE, accs, hist)
        ELSE IF g.found
             THEN LET w == withdraw_held(accs, g.tx.client_id, g.tx.amount)
                      k == lock(w.accounts, g.tx.client_id)
                  IN  PRes(w.ok /\ k.ok, k.accounts, hist)
             ELSE PRes(TRUE, accs, hist)

\* "chargeback" arm: withdraw_held(..)? then lock(..)?.
process_chargeback(accs, hist, tx) ==
    LET g == get_client_tx(hist, tx.client_id, tx.tx_id)
    IN  IF ~g.ok THEN PRes(FALSE, accs, hist)
        ELSE IF g.found
             THEN LET w == withdraw_held(accs, g.tx.client_id, g.tx.amount)
                  IN  IF ~w.ok THEN PRes(FALSE, w.accounts, hist)
                      ELSE LET k == lock(w.accounts, g.tx.client_id)
                           IN  PRes(k.ok, k.accounts, hist)
             ELSE PRes(TRUE, accs, hist)

\* process without the is_locked guard.
process_unguarded(accs, hist, tx) ==
    LET e == ensure_account(accs, tx.client_id)
    IN  IF ~e.ok THEN PRes(FALSE, e.accounts, hist)
        ELSE CASE tx.tx_type = "deposit" -> process_deposit(e.accounts, hist, tx)
               [] tx.tx_type = "withdrawal" -> process_withdrawal(e.accounts, hist, tx)
               [] tx.tx_type = "dispute" -> process_dispute(e.accounts, hist, tx)
               [] tx.tx_type = "resolve" -> process_resolve(e.accounts, hist, tx)
               [] tx.tx_type = "chargeback" -> process_chargeback(e.accounts, hist, tx)
               [] OTHER -> PRes(FALSE, e.accounts, hist)

\* Engine::process: ensure_account, the lock check, then the match on tx_type.
process(accs, hist, tx) ==
    LET e == ensure_account(accs, tx.client_id)
    IN  IF ~e.ok THEN PRes(FALSE, e.accounts, hist)
        ELSE LET l == is_locked(e.accounts, tx.client_id)
             IN  IF ~l.ok THEN PRes(FALSE, e.accounts, hist)
                 ELSE IF l.value THEN PRes(TRUE, e.accounts, hist)
                 ELSE CASE tx.tx_type = "deposit" -> process_deposit(e.accounts, hist, tx)
                        [] tx.tx_type = "withdrawal" -> process_withdrawal(e.accounts, hist, tx)
                        [] tx.tx_type = "dispute" -> process_dispute(e.accounts, hist, tx)
                        [] tx.tx_type = "resolve" -> process_resolve(e.accounts, hist, tx)
                        [] tx.tx_type = "chargeback" -> process_chargeback(e.accounts, hist, tx)
                        [] OTHER -> PRes(FALSE, e.accounts, hist)

\* The reference lifecycle of the history entries: which tx ids are under
\* dispute after process(accs, hist, tx) has returned ok.  A deposit or
\* withdrawal (re)records its id, a matching dispute whose hold succeeded
\* puts the id under dispute, a matching resolve or chargeback that succeeded
\* ends the dispute; a record for a locked account is ignored.
under_dispute(dis, accs, hist, tx, ok) ==
    LET e == ensure_account(accs, tx.client_id).accounts
        g == get_client_tx(hist, tx.client_id, tx.tx_id)
    IN  IF is_locked(e, tx.client_id).value THEN dis
        ELSE IF tx.tx_type \in RecordTypes THEN dis \ {tx.tx_id}
        ELSE IF tx.tx_type = "dispute" /\ ok /\ g.found THEN dis \cup {tx.tx_id}
        ELSE IF tx.tx_type \in {"resolve", "chargeback"} /\ ok /\ g.found THEN dis \ {tx.tx_id}
        ELSE dis

\* The amount process(accs, hist, tx) has put into (+) or taken out of (-)
\* the account of tx.client_id when it returned ok: the amount of a deposit,
\* of a withdrawal, or the recorded amount a chargeback withdrew from held.
\* Disputes and resolves move money inside the account; a record for a
\* locked account is ignored.
moved(accs, hist, tx, ok) ==
    LET e == ensure_account(accs, tx.client_id).accounts
        g == get_client_tx(hist, tx.client_id, tx.tx_id)
    IN  IF is_locked(e, tx.client_id).value \/ ~ok THEN 0
        ELSE IF tx.tx_type = "deposit" THEN tx.amount
        ELSE IF tx.tx_type = "withdrawal" THEN 0 - tx.amount
        ELSE IF tx.tx_type = "chargeback" /\ g.found THEN 0 - g.tx.amount
        ELSE 0

\* The running sums after amount d was moved for client c; accs are the
\* accounts the step leaves, a new account starts at 0.
booked(sums, accs, c, d) ==
    [k \in DOMAIN accs |-> (IF k \in DOMAIN sums THEN sums[k] ELSE 0) + (IF k = c THEN d ELSE 0)]

Snapshot == [accounts |-> accounts, transactions |-> transactions, disputed |-> disputed]

EmptySnapshot == [accounts |-> EmptyMap, transactions |-> EmptyMap, disputed |-> {}]

----------------------------------------------------------------------------
(* main.rs: the SimpleManager is created empty and moved into the Engine;   *)
(* Engine::process_all then takes one step per item of the input sequence.  *)

Init ==
    /\ accounts = EmptyMap
    /\ transactions = EmptyMap
    /\ last = NoTx
    /\ result = "none"
    /\ before = EmptySnapshot
    /\ owner = "engine"
    /\ disputed = {}
    /\ net = EmptyMap
    /\ in_flight = NoHolds
    /\ pos = 0
    /\ input_len = 0

\* Body of the loop for an Ok(tx) item: tx is dispatched to process and the
\* outcome is logged.
Dispatch(tx) ==
    /\ owner = "engine"
    /\ LET r == process(accounts, transactions, tx)
       IN  /\ accounts' = r.accounts
           /\ transactions' = r.transactions
           /\ result' = IF r.ok THEN "complete" ELSE "failed"
           /\ disputed' = under_dispute(disputed, accounts, transactions, tx, r.ok)
           /\ net' = booked(net, r.accounts, tx.client_id, moved(accounts, transactions, tx, r.ok))
    /\ last' = tx
    /\ before' = Snapshot
    /\ UNCHANGED owner

\* Err(err) arm that dispatches a default record (client 0) to process.
Skip_dispatched ==
    /\ owner = "engine"
    /\ accounts' = process(accounts, transactions, Transaction("other", 0, 0, 0)).accounts
    /\ last' = NoTx
    /\ result' = "corrupt"
    /\ before' = Snapshot
    /\ net' = booked(net, accounts', 0, 0)
    /\ UNCHANGED <<transactions, owner, disputed>>

\* Body of the loop for an Err(err) item: it is logged as corrupt, nothing is
\* dispatched.
Skip ==
    /\ owner = "engine"
    /\ last' = NoTx
    /\ result' = "corrupt"
    /\ before' = Snapshot
    /\ UNCHANGED <<accounts, transactions, owner, disputed, net>>

\* One iteration of the loop over an input stream of any length.
ProcessTx(tx) == Dispatch(tx) /\ UNCHANGED <<cursor, in_flight>>

ProcessCorrupt == Skip /\ UNCHANGED <<cursor, in_flight>>

Next ==
    \/ \E tx \in Records : ProcessTx(tx)
    \/ ProcessCorrupt

Spec == Init /\ [][Next]_vars

----------------------------------------------------------------------------
(* The Manager trait driven directly, as the tests of account.rs do, before *)
(* the SimpleManager is handed to Engine::new.                              *)

Call(op, c, a) == Transaction(op, c, 0, a)

InitMgr ==
    /\ accounts = EmptyMap
    /\ transactions = EmptyMap
    /\ last = NoTx
    /\ result = "none"
    /\ before = EmptySnapshot
    /\ owner = "caller"
    /\ disputed = {}
    /\ net = EmptyMap
    /\ in_flight = NoHolds
    /\ pos = 0
    /\ input_len = 0

\* One call of a Manager method returning anyhow::Result<()>.
Returns(op, c, a, r) ==
    /\ owner = "caller"
    /\ accounts' = r.accounts
    /\ result' = IF r.ok THEN "ok" ELSE "err"
    /\ last' = Call(op, c, a)
    /\ net' = booked(net, r.accounts, c, IF ~r.ok THEN 0
                                           ELSE IF op = "deposit" THEN a
                                           ELSE IF op \in {"withdraw", "withdraw_held"} THEN -a
                                           ELSE 0)
    /\ before' = Snapshot
    /\ UNCHANGED <<transactions, owner, disputed, cursor, in_flight>>

CallEnsureAccount(c) == Returns("ensure_account", c, 0, ensure_account(accounts, c))
CallDeposit(c, a) == Returns("deposit", c, a, deposit(accounts, c, a))
CallWithdraw(c, a) == Returns("withdraw", c, a, withdraw(accounts, c, a))
CallWithdrawHeld(c, a) == Returns("withdraw_held", c, a, withdraw_held(accounts, c, a))
CallHold(c, a) == Returns("hold", c, a, hold(accounts, c, a))
CallRelease(c, a) == Returns("release", c, a, release(accounts, c, a))
CallLock(c) == Returns("lock", c, 0, lock(accounts, c))

\* is_locked returns the flag and changes nothing.
CallIsLocked(c) ==
    /\ owner = "caller"
    /\ LET r == is_locked(accounts, c)
       IN  result' = IF ~r.ok THEN "err" ELSE IF r.value THEN "true" ELSE "false"
    /\ last' = Call("is_locked", c, 0)
    /\ before' = Snapshot
    /\ UNCHANGED <<accounts, transactions, owner, disputed, net, cursor, in_flight>>

\* Engine::new(accounts): the manager is moved into the engine, the history
\* starts empty.
EngineNew ==
    /\ owner = "caller"
    /\ owner' = "engine"
    /\ transactions' = EmptyMap
    /\ last' = NoTx
    /\ result' = "none"
    /\ before' = Snapshot
    /\ disputed' = {}
    /\ UNCHANGED <<accounts, net, cursor, in_flight>>

NextMgr ==
    \/ \E c \in Clients : CallEnsureAccount(c)
    \/ \E c \in Clients, a \in Amounts : CallDeposit(c, a)
    \/ \E c \in Clients, a \in Amounts : CallWithdraw(c, a)
    \/ \E c \in Clients, a \in Amounts : CallWithdrawHeld(c, a)
    \/ \E c \in Clients, a \in Amounts : CallHold(c, a)
    \/ \E c \in Clients, a \in Amounts : CallRelease(c, a)
    \/ \E c \in Clients : CallLock(c)
    \/ \E c \in Clients : CallIsLocked(c)
    \/ EngineNew
    \/ \E tx \in Records : ProcessTx(tx)
    \/ ProcessCorrupt

SpecMgr == InitMgr /\ [][NextMgr]_vars

----------------------------------------------------------------------------
(* Engine::process_all on a finite input: the for loop takes the items one  *)
(* by one, whatever the outcome of each, and returns when the iterator is   *)
(* exhausted.  The length of the input is fixed at the start, its items are *)
(* any records or corrupt items.                                            *)

InitRun ==
    /\ accounts = EmptyMap
    /\ transactions = EmptyMap
    /\ last = NoTx
    /\ result = "none"
    /\ before = EmptySnapshot
    /\ owner = "engine"
    /\ disputed = {}
    /\ net = EmptyMap
    /\ in_flight = NoHolds
    /\ pos = 0
    /\ input_len \in 0..MaxInput

\* Iteration that stops the loop when process returns an error.
NextItemTx_abort(tx) ==
    /\ pos < input_len
    /\ Dispatch(tx)
    /\ pos' = IF process(accounts, transactions, tx).ok THEN pos + 1 ELSE input_len
    /\ UNCHANGED <<input_len, in_flight>>

NextItemTx(tx) ==
    /\ pos < input_len
    /\ Dispatch(tx)
    /\ pos' = pos + 1
    /\ UNCHANGED <<input_len, in_flight>>

NextItemCorrupt ==
    /\ pos < input_len
    /\ Skip
    /\ pos' = pos + 1
    /\ UNCHANGED <<input_len, in_flight>>

NextRun ==
    \/ \E tx \in Records : NextItemTx(tx)
    \/ NextItemCorrupt

\* The loop is sequential code: while an item is left, the next iteration runs.
SpecRun == InitRun /\ [][NextRun]_vars /\ WF_vars(NextRun)

----------------------------------------------------------------------------
(* A manager shared by several callers (a multi-threaded front end), which  *)
(* main.rs does not have.  hold is taken in the two steps its code has:     *)
(* the checks, which read available and compute the new held amount, and    *)
(* the two assignments.  With the exclusion boundary a hold starts only     *)
(* when no other is between its steps; without it the steps of two holds    *)
(* interleave freely.                                                       *)

\* Outcomes of the checks of hold that do not reach the assignments: Err(..)
\* and a panic.
HErr == [ok |-> FALSE, panic |-> FALSE, new_amount |-> 0]

HPanic == [ok |-> FALSE, panic |-> TRUE, new_amount |-> 0]

\* hold that does not look at the available amount.
hold_check_no_funds(accs, client_id, amount) ==
    IF ~check_positive(amount) THEN HErr
    ELSE IF client_id \notin DOMAIN accs THEN HErr
    ELSE IF checked_add_ok(accs[client_id].held_amount, amount)
         THEN [ok |-> TRUE, panic |-> FALSE, new_amount |-> accs[client_id].held_amount + amount]
         ELSE HErr

\* hold up to the Some(new_amount) arm: check_positive, the lookup, the
\* available check and checked_add, whose sum the arm binds.  The available
\* check subtracts with Decimal's -, which panics when the difference is not
\* representable (an available amount already below zero).
hold_check(accs, client_id, amount) ==
    IF ~check_positive(amount) THEN HErr
    ELSE IF client_id \notin DOMAIN accs THEN HErr
    ELSE IF ~checked_add_ok(accs[client_id].available_amount, 0 - amount) THEN HPanic
    ELSE IF accs[client_id].available_amount - amount < 0 THEN HErr
    ELSE IF checked_add_ok(accs[client_id].held_amount, amount)
         THEN [ok |-> TRUE, panic |-> FALSE, new_amount |-> accs[client_id].held_amount + amount]
         ELSE HErr

\* The Some(new_amount) arm: available_amount -= amount; held_amount = new_amount.
hold_apply(accs, client_id, amount, new_amount) ==
    [accs EXCEPT ![client_id].available_amount = @ - amount,
                 ![client_id].held_amount = new_amount]

Threads == {1, 2}

Idle == [pc |-> "idle", client_id |-> 0, amount |-> 0, new_amount |-> 0]

AllIdle == \A t \in DOMAIN in_flight.ops : in_flight.ops[t].pc = "idle"

InitShared ==
    /\ accounts = EmptyMap
    /\ transactions = EmptyMap
    /\ last = NoTx
    /\ result = "none"
    /\ before = EmptySnapshot
    /\ owner = "caller"
    /\ disputed = {}
    /\ net = EmptyMap
    /\ in_flight \in {[exclusive |-> x, ops |-> [t \in Threads |-> Idle]] : x \in BOOLEAN}
    /\ pos = 0
    /\ input_len = 0

\* Accounts are opened and funded before the first hold is called.
SetupEnsureAccount(c) == last.tx_type # "hold" /\ CallEnsureAccount(c)

SetupDeposit(c, a) == last.tx_type # "hold" /\ CallDeposit(c, a)

\* Caller t enters hold(c, a) and runs its checks.
HoldCheck(t, c, a) ==
    /\ owner = "caller"
    /\ in_flight.ops[t].pc = "idle"
    /\ in_flight.exclusive => AllIdle
    /\ LET r == hold_check(accounts, c, a)
       IN  /\ in_flight' = [in_flight EXCEPT !.ops[t] =
                               IF r.ok THEN [pc |-> "checked", client_id |-> c, amount |-> a,
                                             new_amount |-> r.new_amount]
                               ELSE Idle]
           /\ result' = IF r.ok THEN "checked" ELSE IF r.panic THEN "panic" ELSE "err"
    /\ last' = Call("hold", c, a)
    /\ before' = Snapshot
    /\ UNCHANGED <<accounts, transactions, owner, disputed, net, cursor>>

\* Caller t, past the checks, writes the two amounts and returns Ok.
HoldApply(t) ==
    /\ owner = "caller"
    /\ in_flight.ops[t].pc = "checked"
    /\ LET op == in_flight.ops[t]
       IN  /\ accounts' = hold_apply(accounts, op.client_id, op.amount, op.new_amount)
           /\ last' = Call("hold", op.client_id, op.amount)
    /\ in_flight' = [in_flight EXCEPT !.ops[t] = Idle]
    /\ result' = "ok"
    /\ before' = Snapshot
    /\ UNCHANGED <<transactions, owner, disputed, net, cursor>>

NextShared ==
    \/ \E c \in Clients : SetupEnsureAccount(c)
    \/ \E c \in Clients, a \in Amounts : SetupDeposit(c, a)
    \/ \E t \in Threads, c \in Clients, a \in Amounts : HoldCheck(t, c, a)
    \/ \E t \in Threads : HoldApply(t)

SpecShared == InitShared /\ [][NextShared]_vars

----------------------------------------------------------------------------
(* Vocabulary of the properties *)

ByEngine == result \in {"complete", "failed"}
ByManager == result \in {"ok", "err", "true", "false"}

\* The account of client c in an accounts map that has one.
Bal(accs, c) == <<accs[c].available_amount, accs[c].held_amount>>

\* The accounts the dispatch of the last record started from: the map
\* before the step, after ensure_account.
Ensured == ensure_account(before.accounts, last.client_id).accounts

TypeOK ==
    /\ DOMAIN accounts \subseteq Clients
    /\ DOMAIN transactions \subseteq DepositTxIds
    /\ owner \in {"caller", "engine"}

\* The last step was Engine::process of a record whose client account was
\* not locked when the record arrived.
OnUnlocked == ByEngine /\ ~Ensured[last.client_id].is_locked

\* The last record's tx_id was in the history, under the record's own client.
Matches ==
    /\ last.tx_id \in DOMAIN before.transactions
    /\ before.transactions[last.tx_id].client_id = last.client_id

\* The last record's tx_id was in the history under another client.
Mismatches ==
    /\ last.tx_id \in DOMAIN before.transactions
    /\ before.transactions[last.tx_id].client_id # last.client_id

\* No account that existed before the last step was changed by it.
AccountsKept == \A k \in DOMAIN before.accounts : k \in DOMAIN accounts /\ accounts[k] = before.accounts[k]

----------------------------------------------------------------------------
\* C1: after any sequence of records every account has available >= 0 and
\* held >= 0, and a record that asks to take more than the balance it draws
\* on (a withdrawal or dispute more than available, a resolve or chargeback
\* more than held) fails and leaves the accounts as they were: nothing is
\* clamped.
Overdraws ==
    LET acc == Ensured[last.client_id]
    IN  \/ last.tx_type = "withdrawal" /\ last.amount > acc.available_amount
        \/ /\ Matches
           /\ \/ last.tx_type = "dispute"
                 /\ before.transactions[last.tx_id].amount > acc.available_amount
              \/ last.tx_type \in {"resolve", "chargeback"}
                 /\ before.transactions[last.tx_id].amount > acc.held_amount

NonNegativeBalances ==
    /\ \A c \in DOMAIN accounts :
          accounts[c].available_amount >= 0 /\ accounts[c].held_amount >= 0
    /\ (OnUnlocked /\ Overdraws) => (result = "failed" /\ accounts = Ensured)

\* A withdrawal of more than a non-zero available balance was refused.
OverdrawRefused ==
    /\ ByEngine /\ last.tx_type = "withdrawal" /\ result = "failed"
    /\ Ensured[last.client_id].available_amount > 0
    /\ last.amount > Ensured[last.client_id].available_amount
    /\ accounts[last.client_id].available_amount = Ensured[last.client_id].available_amount

\* C2: a record of any type for a client whose account is locked is
\* ignored: process returns Ok, no account changes (available, held and
\* locked included) and the history is what it was.
LockedAccountIgnoresRecords ==
    (ByEngine /\ last.client_id \in DOMAIN before.accounts
              /\ before.accounts[last.client_id].is_locked)
    => /\ result = "complete"
       /\ accounts = before.accounts
       /\ transactions = before.transactions

\* A deposit that the ledger would have accepted arrived for a locked
\* account that had been charged back.
DepositOnLockedIgnored ==
    /\ owner = "engine" /\ ByEngine
    /\ last.tx_type = "deposit" /\ last.amount = 1
    /\ last.client_id \in DOMAIN before.accounts
    /\ before.accounts[last.client_id].is_locked
    /\ before.accounts[last.client_id].available_amount = 1
    /\ last.tx_id \in DOMAIN before.transactions
    /\ before.transactions[last.tx_id].amount = 1

\* C3 as stated: once lock(c) has succeeded, no later deposit, withdraw,
\* hold, release or withdraw_held call on the Manager changes available or
\* held of c.
LockFinalityAtManager ==
    (ByManager /\ last.tx_type \in {"deposit", "withdraw", "hold", "release", "withdraw_held"}
               /\ last.client_id \in DOMAIN before.accounts
               /\ before.accounts[last.client_id].is_locked)
    => Bal(accounts, last.client_id) = Bal(before.accounts, last.client_id)

\* C3 amended: lock finality holds for the records Engine::process handles:
\* once lock(c) has succeeded, whether called by a chargeback or directly on
\* the Manager, no record processed for c changes available or held of c.
LockFinalityAtEngine ==
    (ByEngine /\ last.client_id \in DOMAIN before.accounts
              /\ before.accounts[last.client_id].is_locked)
    => Bal(accounts, last.client_id) = Bal(before.accounts, last.client_id)

\* An account locked by a direct Manager::lock call (no record was ever
\* recorded) received a withdrawal it could have paid.
WithdrawalAfterManagerLock ==
    /\ owner = "engine" /\ ByEngine
    /\ last.tx_type = "withdrawal" /\ last.amount = 1
    /\ before.transactions = EmptyMap
    /\ last.client_id \in DOMAIN before.accounts
    /\ before.accounts[last.client_id].is_locked
    /\ before.accounts[last.client_id].available_amount >= 1

\* C4: a dispute, resolve or chargeback on an unlocked account that matches
\* a history entry moves the recorded amount a of that entry and nothing
\* else: when it completes, dispute gives available - a, held + a; resolve
\* available + a, held - a; chargeback available, held - a; when the ledger
\* refuses it, neither balance moves.  The amount field of the reference
\* record plays no part.
ReferenceMovesRecordedAmount ==
    (OnUnlocked /\ last.tx_type \in ReferenceTypes /\ Matches)
    => LET a == before.transactions[last.tx_id].amount
           b == Bal(Ensured, last.client_id)
           after == Bal(accounts, last.client_id)
       IN  /\ (result = "complete" /\ last.tx_type = "dispute") => after = <<b[1] - a, b[2] + a>>
           /\ (result = "complete" /\ last.tx_type = "resolve") => after = <<b[1] + a, b[2] - a>>
           /\ (result = "complete" /\ last.tx_type = "chargeback") => after = <<b[1], b[2] - a>>
           /\ result = "failed" => after = b

\* A dispute record carrying an amount other than the recorded one held
\* the recorded amount.
DisputeHeldRecordedAmount ==
    /\ OnUnlocked /\ last.tx_type = "dispute" /\ Matches /\ result = "complete"
    /\ before.transactions[last.tx_id].amount = 1
    /\ last.amount # 1
    /\ accounts[last.client_id].held_amount = Ensured[last.client_id].held_amount + 1

\* C5: for a matching chargeback on an unlocked account, the account is
\* locked afterwards exactly when withdraw_held of the recorded amount
\* succeeded (the amount is not negative and held covers it): then held
\* went down by the amount, available is unchanged and the record
\* completes; otherwise nothing changed, the account stays unlocked and
\* the record is reported as failed.
ChargebackLocksIffHeldWithdrawn ==
    (OnUnlocked /\ last.tx_type = "chargeback" /\ Matches)
    => LET c == last.client_id
           a == before.transactions[last.tx_id].amount
           withdrawn == a >= 0 /\ Ensured[c].held_amount >= a
       IN  /\ accounts[c].is_locked <=> withdrawn
           /\ withdrawn => /\ result = "complete"
                           /\ accounts[c].held_amount = Ensured[c].held_amount - a
                           /\ accounts[c].available_amount = Ensured[c].available_amount
           /\ ~withdrawn => /\ result = "failed"
                            /\ accounts = Ensured

\* A chargeback of a recorded amount that was not held failed and did not
\* lock the account.
ChargebackWithoutHeldFails ==
    /\ OnUnlocked /\ last.tx_type = "chargeback" /\ Matches
    /\ before.transactions[last.tx_id].amount = 1
    /\ Ensured[last.client_id].held_amount = 0
    /\ Ensured[last.client_id].available_amount = 1
    /\ result = "failed"
    /\ ~accounts[last.client_id].is_locked

\* C6: a dispute, resolve or chargeback whose tx_id is not in the history
\* returns Ok, changes no existing account (at most the record's own
\* client gets its fresh account), leaves the history alone, and the loop
\* takes the next record.
UnknownReferenceIsIgnored ==
    (ByEngine /\ last.tx_type \in ReferenceTypes /\ last.tx_id \notin DOMAIN before.transactions)
    => /\ result = "complete"
       /\ AccountsKept
       /\ accounts = Ensured
       /\ transactions = before.transactions
       /\ ENABLED Next

\* A dispute of a never recorded tx_id arrived for an unlocked account
\* with money, other records being in the history.
UnknownDisputeOnFundedAccount ==
    /\ OnUnlocked /\ last.tx_type = "dispute"
    /\ last.tx_id \notin DOMAIN before.transactions
    /\ before.transactions # EmptyMap
    /\ Ensured[last.client_id].available_amount > 0
    /\ result = "complete"

\* C7 as stated: a dispute, resolve or chargeback whose tx_id is in the
\* history under another client is rejected with an error and changes no
\* account and no history entry.
MismatchIsRejected ==
    (ByEngine /\ last.tx_type \in ReferenceTypes /\ Mismatches)
    => /\ result = "failed"
       /\ AccountsKept
       /\ accounts = Ensured
       /\ transactions = before.transactions

\* C7 amended: such a record changes no account and no history entry; it
\* is rejected with an error when the claiming client's account is not
\* locked, and silently ignored (Ok) when it is locked.
MismatchChangesNothing ==
    (ByEngine /\ last.tx_type \in ReferenceTypes /\ Mismatches)
    => /\ result = (IF Ensured[last.client_id].is_locked THEN "complete" ELSE "failed")
       /\ AccountsKept
       /\ accounts = Ensured
       /\ transactions = before.transactions

\* A client disputed a deposit of another client, who could have covered
\* the hold.
MismatchedDisputeRejected ==
    /\ OnUnlocked /\ last.tx_type = "dispute" /\ Mismatches
    /\ result = "failed"
    /\ LET o == before.transactions[last.tx_id]
       IN  /\ o.amount = 1
           /\ o.client_id \in DOMAIN accounts
           /\ accounts[o.client_id].available_amount >= 1

\* C8 as stated: the history gets an entry only for a deposit or withdrawal
\* whose ledger operation succeeded; a rejected one leaves the history as
\* it was.
HistoryOnlyAccepted ==
    (ByEngine /\ last.tx_type \in RecordTypes /\ result = "failed")
    => transactions = before.transactions

\* C9: after a hold(c, a) that succeeded, release(c, a) succeeds and gives
\* back the accounts as they were before the hold.
HoldReleaseRoundTrip ==
    (ByManager /\ last.tx_type = "hold" /\ result = "ok")
    => release(accounts, last.client_id, last.amount) = MOk(before.accounts)

\* A hold of a non-zero amount succeeded on an account that already held
\* something.
HoldSucceeded ==
    /\ ByManager /\ last.tx_type = "hold" /\ result = "ok"
    /\ last.amount > 0
    /\ before.accounts[last.client_id].held_amount > 0
    /\ accounts[last.client_id].available_amount > 0

\* C10: a hold or release that fails changes nothing; one that succeeds
\* takes exactly the amount from one balance and adds it to the other; so
\* available + held is the same before and after.
HoldReleaseAtomic ==
    (ByManager /\ last.tx_type \in {"hold", "release"} /\ last.client_id \in DOMAIN before.accounts)
    => LET a == last.amount
           b == Bal(before.accounts, last.client_id)
           after == Bal(accounts, last.client_id)
       IN  /\ result = "err" => accounts = before.accounts
           /\ (result = "ok" /\ last.tx_type = "hold") => after = <<b[1] - a, b[2] + a>>
           /\ (result = "ok" /\ last.tx_type = "release") => after = <<b[1] + a, b[2] - a>>
           /\ after[1] + after[2] = b[1] + b[2]
           /\ AccountsKept \/ result = "ok"

\* A hold that available could pay failed on the overflow of held.
HoldOverflowRefused ==
    /\ ByManager /\ last.tx_type = "hold" /\ result = "err"
    /\ last.amount > 0
    /\ last.client_id \in DOMAIN before.accounts
    /\ before.accounts[last.client_id].available_amount >= last.amount
    /\ before.accounts[last.client_id].held_amount + last.amount > DecimalMax

----------------------------------------------------------------------------
BalanceOps == {"deposit", "withdraw", "hold", "release", "withdraw_held"}

\* C11 as stated: deposit, withdraw, hold, release and withdraw_held fail,
\* leaving the accounts unchanged, for every amount that is not strictly
\* positive: for zero as well as for negative amounts.
NonPositiveAmountRejected ==
    (ByManager /\ last.tx_type \in BalanceOps /\ last.amount <= 0)
    => (result = "err" /\ accounts = before.accounts)

\* C11 amended: the five operations fail, leaving the accounts unchanged,
\* for every negative amount; a zero amount passes check_positive, and on an
\* existing account the call succeeds and changes nothing.
NegativeAmountRejected ==
    (ByManager /\ last.tx_type \in BalanceOps)
    => /\ last.amount < 0 => (result = "err" /\ accounts = before.accounts)
       /\ (last.amount = 0 /\ last.client_id \in DOMAIN before.accounts)
             => (result = "ok" /\ accounts = before.accounts)

\* A release of a negative amount was refused on an account with money on
\* both balances.
NegativeReleaseRefused ==
    /\ ByManager /\ last.tx_type = "release" /\ last.amount < 0
    /\ last.client_id \in DOMAIN before.accounts
    /\ before.accounts[last.client_id].held_amount > 0
    /\ before.accounts[last.client_id].available_amount > 0
    /\ result = "err"

\* C12: deposit of a valid amount on an existing account fails, leaving
\* available at its previous value, when available + amount is above the
\* largest representable value; otherwise it succeeds and available is
\* exactly available + amount.  Held, the lock flag and the other accounts
\* are unchanged either way.
DepositCheckedAdd ==
    (ByManager /\ last.tx_type = "deposit" /\ last.amount >= 0
               /\ last.client_id \in DOMAIN before.accounts)
    => LET c == last.client_id
           old == before.accounts[c]
       IN  /\ old.available_amount + last.amount > DecimalMax
              => (result = "err" /\ accounts = before.accounts)
           /\ old.available_amount + last.amount <= DecimalMax
              => /\ result = "ok"
                 /\ accounts = [before.accounts EXCEPT
                                   ![c].available_amount = old.available_amount + last.amount]

\* A deposit of 1 on an account whose available is the largest value was
\* refused.
DepositOverflowRefused ==
    /\ ByManager /\ last.tx_type = "deposit" /\ last.amount = 1
    /\ last.client_id \in DOMAIN before.accounts
    /\ before.accounts[last.client_id].available_amount = DecimalMax
    /\ result = "err"
    /\ accounts[last.client_id].available_amount = DecimalMax

\* C13: on an existing account and for an amount that passes
\* check_positive, withdraw succeeds exactly when available >= amount and
\* then takes the amount from available only; withdraw_held succeeds
\* exactly when held >= amount and then takes the amount from held only.
\* Whenever either call fails, for any amount, the accounts are unchanged.
WithdrawExactlyWhenCovered ==
    (ByManager /\ last.tx_type \in {"withdraw", "withdraw_held"})
    => /\ result = "err" => accounts = before.accounts
       /\ (last.amount >= 0 /\ last.client_id \in DOMAIN before.accounts)
          => LET c == last.client_id
                 a == last.amount
                 old == before.accounts[c]
             IN  /\ last.tx_type = "withdraw"
                    => /\ result = "ok" <=> old.available_amount >= a
                       /\ result = "ok" =>
                            accounts = [before.accounts EXCEPT ![c].available_amount = old.available_amount - a]
                 /\ last.tx_type = "withdraw_held"
                    => /\ result = "ok" <=> old.held_amount >= a
                       /\ result = "ok" =>
                            accounts = [before.accounts EXCEPT ![c].held_amount = old.held_amount - a]

\* withdraw_held took the whole held balance and left available alone.
WholeHeldWithdrawn ==
    /\ ByManager /\ last.tx_type = "withdraw_held" /\ result = "ok"
    /\ last.amount > 0
    /\ before.accounts[last.client_id].held_amount = last.amount
    /\ accounts[last.client_id].held_amount = 0
    /\ accounts[last.client_id].available_amount > 0

\* C14: ensure_account never fails; afterwards the client has an account;
\* for a client that already had one nothing changes (balances and lock
\* flag are kept); and a second call leaves the ledger as the first left
\* it.
EnsureAccountIdempotent ==
    (ByManager /\ last.tx_type = "ensure_account")
    => /\ result = "ok"
       /\ last.client_id \in DOMAIN accounts
       /\ AccountsKept
       /\ last.client_id \in DOMAIN before.accounts => accounts = before.accounts
       /\ ensure_account(accounts, last.client_id) = MOk(accounts)

\* ensure_account was called for a locked account with money.
EnsureOnExistingAccount ==
    /\ ByManager /\ last.tx_type = "ensure_account"
    /\ last.client_id \in DOMAIN before.accounts
    /\ before.accounts[last.client_id].is_locked
    /\ before.accounts[last.client_id].available_amount > 0
    /\ before.accounts[last.client_id].held_amount > 0

\* C15: on every finite input process_all ends with every item taken: each
\* step of the loop takes exactly one item, the next in order, whether the
\* step before completed, failed or met a corrupt item, and works on the
\* accounts and the history that step left; and the cursor reaches the end
\* of the input and stays there.
EveryItemOnce ==
    /\ pos < input_len
    /\ pos' = pos + 1
    /\ input_len' = input_len
    /\ before' = Snapshot
    /\ result' \in {"complete", "failed", "corrupt"}
    /\ result' = "corrupt" => (accounts' = accounts /\ transactions' = transactions)
    /\ result' # "corrupt" =>
          /\ accounts' = process(accounts, transactions, last').accounts
          /\ transactions' = process(accounts, transactions, last').transactions

ProcessAllCompletes == [][EveryItemOnce]_vars /\ <>[](pos = input_len)

\* The run of a longest input ended with a deposit that completed, after
\* an item that had failed (the history entry it replaced carries a
\* negative amount) and at least one more.
RunEndedAfterFailure ==
    /\ pos = input_len /\ input_len = MaxInput
    /\ result = "complete" /\ last.tx_type = "deposit" /\ last.amount = 1
    /\ last.tx_id \in DOMAIN before.transactions
    /\ before.transactions[last.tx_id].amount < 0
    /\ accounts[last.client_id].available_amount = 1

\* C16: after process has handled a record for client c, an account for c
\* exists, whatever the type and the outcome; a step creates no other
\* account and removes none; an account created by the step started from
\* available = 0, held = 0, unlocked (so it holds what the record itself
\* deposited, and nothing else); a corrupt item touches no account.
AccountCreatedOnFirstReference ==
    /\ DOMAIN before.accounts \subseteq DOMAIN accounts
    /\ result = "corrupt" => accounts = before.accounts
    /\ ByEngine =>
          LET c == last.client_id
          IN  /\ c \in DOMAIN accounts
              /\ DOMAIN accounts = DOMAIN before.accounts \cup {c}
              /\ accounts[c].client_id = c
              /\ c \notin DOMAIN before.accounts =>
                    /\ accounts[c].held_amount = 0
                    /\ ~accounts[c].is_locked
                    /\ accounts[c].available_amount =
                          (IF last.tx_type = "deposit" /\ result = "complete" THEN last.amount ELSE 0)

\* The first record of a client was a dispute of another client's deposit:
\* it failed, and the client has its zero account.
AccountCreatedByFailedRecord ==
    /\ ByEngine /\ last.tx_type = "dispute" /\ result = "failed" /\ Mismatches
    /\ last.client_id \notin DOMAIN before.accounts
    /\ accounts[last.client_id] = Account(last.client_id)
    /\ DOMAIN before.accounts # {}

\* C17: the lock flag is one-way: an account that was locked before a step
\* is locked after it; and an account is locked after a step without having
\* been locked before it only if the step was a chargeback of that client
\* that matched a history entry and whose withdraw_held succeeded.
LockedOneWay ==
    /\ \A k \in DOMAIN before.accounts :
          before.accounts[k].is_locked => (k \in DOMAIN accounts /\ accounts[k].is_locked)
    /\ \A k \in DOMAIN accounts :
          (accounts[k].is_locked /\ ~(k \in DOMAIN before.accounts /\ before.accounts[k].is_locked))
          => /\ ByEngine /\ last.tx_type = "chargeback" /\ last.client_id = k
             /\ result = "complete"
             /\ Matches
             /\ LET a == before.transactions[last.tx_id].amount
                IN  /\ a >= 0 /\ before.accounts[k].held_amount >= a
                    /\ accounts[k].held_amount = before.accounts[k].held_amount - a

\* A chargeback of a held amount locked the account, while another account
\* was locked already.
ChargebackLocked ==
    /\ ByEngine /\ last.tx_type = "chargeback" /\ result = "complete" /\ Matches
    /\ last.client_id \in DOMAIN before.accounts
    /\ ~before.accounts[last.client_id].is_locked
    /\ accounts[last.client_id].is_locked
    /\ before.transactions[last.tx_id].amount = 1
    /\ \E k \in DOMAIN before.accounts : k # last.client_id /\ before.accounts[k].is_locked

\* C18 as stated: history entries are write-once: an entry that was in the
\* history before a step is there after it with the same client_id, amount
\* and type, whatever record the step processed.
HistoryWriteOnce ==
    \A x \in DOMAIN before.transactions :
        x \in DOMAIN transactions /\ transactions[x] = before.transactions[x]

\* C19 as stated: a resolve or a chargeback has an effect on the account
\* (balances or lock flag) only when the referenced transaction is under
\* dispute: a matching dispute of that tx_id succeeded earlier and has not
\* been resolved or charged back since.
ResolveChargebackOnlyWhenHeld ==
    (ByEngine /\ last.tx_type \in {"resolve", "chargeback"} /\ last.tx_id \notin before.disputed)
    => accounts = Ensured

\* C20: a dispute of a transaction that is already under dispute goes to
\* hold like the first one: it fails exactly when available is smaller than
\* the recorded amount or held + amount is not representable, and nothing
\* moves; otherwise it completes and holds the recorded amount once more.
SecondDisputeNotBlocked ==
    (OnUnlocked /\ last.tx_type = "dispute" /\ Matches /\ last.tx_id \in before.disputed)
    => LET c == last.client_id
           a == before.transactions[last.tx_id].amount
           old == Ensured[c]
       IN  /\ result = "failed" <=> (old.available_amount < a \/ old.held_amount + a > DecimalMax)
           /\ result = "failed" => accounts = Ensured
           /\ result = "complete" =>
                 accounts = [Ensured EXCEPT ![c].available_amount = old.available_amount - a,
                                            ![c].held_amount = old.held_amount + a]
           /\ last.tx_id \in disputed

\* The second dispute of a recorded amount of 1 completed: held is 2, more
\* than the disputed transaction.
HeldExceedsDisputedAmount ==
    /\ OnUnlocked /\ last.tx_type = "dispute" /\ Matches /\ last.tx_id \in before.disputed
    /\ result = "complete"
    /\ before.transactions[last.tx_id].amount = 1
    /\ before.accounts[last.client_id].held_amount = 1
    /\ accounts[last.client_id].held_amount = 2

\* C21: only deposit and withdrawal records change the history: a dispute,
\* resolve or chargeback leaves every entry as it was and adds none, so a
\* tx_id that only reference records have carried is in no entry and every
\* lookup of it, for any client, finds nothing.
HistoryOnlyByRecords ==
    /\ (ByEngine /\ last.tx_type \in ReferenceTypes) => transactions = before.transactions
    /\ \A x \in TxIds \ DepositTxIds :
          /\ x \notin DOMAIN transactions
          /\ \A c \in Clients : LET g == get_client_tx(transactions, c, x)
                                IN  g.ok /\ ~g.found

\* A dispute of a tx_id that only reference records carry completed on an
\* unlocked account, with a non-empty history.
ReferenceToUnrecordedId ==
    /\ OnUnlocked /\ last.tx_type = "dispute" /\ result = "complete"
    /\ last.tx_id \notin DepositTxIds
    /\ before.transactions # EmptyMap
    /\ before.transactions[1].client_id = last.client_id

\* C22: a corrupt item of the input is not dispatched to process: it takes
\* one iteration of the loop, which creates no account, changes no balance
\* or lock flag and leaves the history as it was, and while items are left
\* the loop takes the next one, whatever record it is.
CorruptItemSkipped ==
    result = "corrupt"
    => /\ accounts = before.accounts
       /\ transactions = before.transactions
       /\ disputed = before.disputed
       /\ pos >= 1
       /\ pos < input_len => \A tx \in Records : ENABLED NextItemTx(tx)

\* A corrupt item came after a deposit that funded the account, with items
\* left in the input.
CorruptItemAfterDeposit ==
    /\ result = "corrupt"
    /\ pos < input_len
    /\ \E c \in DOMAIN accounts : accounts[c].available_amount > 0
    /\ transactions # EmptyMap

\* The Manager methods that work on an account that has to exist.
ManagerOps == {"deposit", "withdraw", "hold", "release", "withdraw_held", "lock", "is_locked"}

\* C23: a Manager operation other than ensure_account (deposit, withdraw,
\* hold, release, withdraw_held, lock, is_locked) called for a client id
\* without an account returns an error and leaves the accounts map as it
\* was; none of these operations ever adds or removes an account.
MissingAccountIsError ==
    (ByManager /\ last.tx_type \in ManagerOps)
    => /\ DOMAIN accounts = DOMAIN before.accounts
       /\ last.client_id \notin DOMAIN before.accounts
          => (result = "err" /\ accounts = before.accounts)

\* A deposit of 1 for a client without an account returned an error while
\* another client had an account with funds.
DepositToMissingAccount ==
    /\ ByManager /\ last.tx_type = "deposit" /\ last.amount = 1
    /\ last.client_id \notin DOMAIN before.accounts
    /\ result = "err"
    /\ \E k \in DOMAIN accounts : accounts[k].available_amount > 0

\* total of an account, as print_accounts computes it: available_amount +
\* held_amount with Decimal's +, which panics when the sum is not
\* representable; then there is no total and nothing more is printed.
Total(accs, c) ==
    IF checked_add_ok(accs[c].available_amount, accs[c].held_amount)
    THEN [ok |-> TRUE, value |-> accs[c].available_amount + accs[c].held_amount]
    ELSE [ok |-> FALSE, value |-> 0]

\* C24: money accounting identity: after any sequence of records, for
\* every client the amounts available and held add up, as exact numbers, to
\* the sum of the amounts of the client's deposits that were applied, minus
\* the amounts of its withdrawals that were applied, minus the amounts its
\* chargebacks withdrew from held; a dispute or a resolve leaves that sum
\* of every account as it was.
AccountingIdentity ==
    /\ DOMAIN net = DOMAIN accounts
    /\ \A c \in DOMAIN accounts :
          accounts[c].available_amount + accounts[c].held_amount = net[c]
    /\ (ByEngine /\ last.tx_type \in {"dispute", "resolve"})
       => \A c \in DOMAIN accounts :
             accounts[c].available_amount + accounts[c].held_amount
                = Ensured[c].available_amount + Ensured[c].held_amount

\* A chargeback took a disputed deposit of 1 out of an account that had
\* received 2: available 1, held 0.
ChargebackTookDisputedDeposit ==
    /\ OnUnlocked /\ last.tx_type = "chargeback" /\ Matches /\ result = "complete"
    /\ before.transactions[last.tx_id].amount = 1
    /\ Bal(before.accounts, last.client_id) = <<1, 1>>
    /\ Bal(accounts, last.client_id) = <<1, 0>>
    /\ net[last.client_id] = 1

\* C25: cross-client isolation: processing a record of client c, of any
\* type, leaves every account of another client as it was (available, held
\* and locked), creates no account for another client and removes none,
\* also when the record refers to a tx_id recorded for another client.
CrossClientIsolation ==
    ByEngine
    => /\ \A k \in DOMAIN before.accounts : k \in DOMAIN accounts
       /\ \A k \in DOMAIN accounts \ {last.client_id} :
             k \in DOMAIN before.accounts /\ accounts[k] = before.accounts[k]

\* A dispute by one client of a deposit recorded for another client, whose
\* account could have covered the hold.
DisputeOfAnotherClientsDeposit ==
    /\ OnUnlocked /\ last.tx_type = "dispute" /\ Mismatches
    /\ LET t == before.transactions[last.tx_id]
       IN  /\ t.amount > 0
           /\ t.client_id \in DOMAIN before.accounts
           /\ ~before.accounts[t.client_id].is_locked
           /\ before.accounts[t.client_id].available_amount >= t.amount
           /\ accounts[t.client_id] = before.accounts[t.client_id]

\* C26: the operations on one account have to be linearized.  With the
\* exclusion boundary, where each hold runs its checks and its assignments
\* with no other hold in between, every balance stays >= 0, available +
\* held stays what was deposited, and a hold leaves what the one-step hold
\* leaves; a negative available occurs only without the boundary.
HoldsLinearized ==
    in_flight.exclusive
    => /\ \A c \in DOMAIN accounts :
             /\ accounts[c].available_amount >= 0
             /\ accounts[c].held_amount >= 0
             /\ Total(accounts, c).ok /\ Total(accounts, c).value = net[c]
       /\ (last.tx_type = "hold" /\ result = "ok")
          => LET h == hold(before.accounts, last.client_id, last.amount)
             IN  h.ok /\ accounts = h.accounts
       /\ (last.tx_type = "hold" /\ result = "err")
          => ~hold(before.accounts, last.client_id, last.amount).ok

\* Without the boundary two holds passed their checks on the same account
\* before either wrote: available is negative.
NegativeAvailableByInterleaving ==
    /\ ~in_flight.exclusive
    /\ last.tx_type = "hold" /\ result = "ok"
    /\ before.accounts[last.client_id].available_amount >= 0
    /\ accounts[last.client_id].available_amount < 0
====
